---- MODULE Spec2Model ----
(***************************************************************************)
(* Model of kag_mini.  Each component has its own specification; the       *)
(* variables of the other components stay at their initial value in it.    *)
(*                                                                         *)
(* Part 1: the graph store, class KnowledgeGraph of                        *)
(* src/modules/graph_processing/knowledge_graph.py.                        *)
(*                                                                         *)
(* self.graph is a networkx DiGraph: a dict of nodes (name -> attribute    *)
(* dict) and a dict of adjacency entries ((u, v) -> attribute dict), so    *)
(* there is at most one edge per ordered pair.  self.stats is the dict of  *)
(* counters the class keeps next to the graph.                             *)
(*                                                                         *)
(* Python values stored in attribute dicts are tagged with their type      *)
(* (Str, Num) because       get_relations_between behaves differently on   *)
(* them.  A similarity (a Python float obtained by one division) is kept   *)
(* as the exact fraction num/den.                                          *)
(***************************************************************************)
EXTENDS Integers, FiniteSets, Sequences, TLC

VARIABLES graph, stats, last, calls, seen, firstRole, file, pipe, resp, seg,
          retr, kag

vars == <<graph, stats, last, calls, seen, firstRole, file, pipe, resp, seg,
          retr, kag>>

\* The graph store, and what lies outside it: the GraphML file on disk, the
\* run of the extraction pipeline, the completion being parsed and the run of
\* the text segmenter, a retrieval or prompt enhancement, and the KAGSystem
\* of src/main.py.
storeVars == <<graph, stats, last, calls, seen, firstRole>>

nonStoreVars == <<file, pipe, resp, seg, retr, kag>>

(***************************************************************************)
(* Bounds and input sets.                                                  *)
(***************************************************************************)
MaxCalls == 2

MaxDist == 2

Entities == {"", "a", "A"}

RelationLabels == {"", "r"}

Str(s) == [t |-> "str", v |-> s]

Num(n) == [t |-> "num", v |-> n]

EmptyDict == <<>>

Props ==
  { EmptyDict,
    [k \in {"sentence"} |-> Str("")],
    [k \in {"relation", "level"} |-> IF k = "relation" THEN Str("q") ELSE Num(1)] }

Distances == 0..MaxDist

(***************************************************************************)
(* Python dict and networkx DiGraph primitives.                            *)
(***************************************************************************)
\* dict.update: keys of e are added to d, overwriting the values d had.
Update(d, e) ==
  [k \in (DOMAIN d) \cup (DOMAIN e) |-> IF k \in DOMAIN e THEN e[k] ELSE d[k]]

\* d[key] = value
Put(d, key, value) ==
  [k \in (DOMAIN d) \cup {key} |-> IF k = key THEN value ELSE d[k]]

EmptyGraph == [node |-> EmptyDict, adj |-> EmptyDict]

has_node(G, n) == n \in DOMAIN G.node

has_edge(G, u, v) == <<u, v>> \in DOMAIN G.adj

\* DiGraph.add_node(n, **attr): a new node gets attr, an existing node has
\* its attribute dict updated with attr.
add_node(G, n, attr) ==
  [G EXCEPT !.node =
     Put(G.node, n, IF has_node(G, n) THEN Update(G.node[n], attr) ELSE attr)]

\* DiGraph.add_edge(u, v, **attr): missing endpoints are created without
\* attributes; the attribute dict of the pair (u, v) is created if the pair
\* is new and updated with attr if the pair already has an edge.
add_edge(G, u, v, attr) ==
  LET G1 == IF has_node(G, u) THEN G ELSE add_node(G, u, EmptyDict)
      G2 == IF has_node(G1, v) THEN G1 ELSE add_node(G1, v, EmptyDict)
      old == IF has_edge(G2, u, v) THEN G2.adj[<<u, v>>] ELSE EmptyDict
  IN  [G2 EXCEPT !.adj = Put(G2.adj, <<u, v>>, Update(old, attr))]

\* Variant: the node count read from the edge collection.
number_of_nodes_from_edges(G) == Cardinality(DOMAIN G.adj)

number_of_nodes(G) == Cardinality(DOMAIN G.node)

number_of_edges(G) == Cardinality(DOMAIN G.adj)

successors(G, n) == {m \in DOMAIN G.node : has_edge(G, n, m)}

predecessors(G, n) == {m \in DOMAIN G.node : has_edge(G, m, n)}

\* DiGraph.subgraph(nodes).copy(): the induced subgraph, attributes kept.
subgraph(G, ns) ==
  LET keep == ns \cap DOMAIN G.node
      pairs == {e \in DOMAIN G.adj : e[1] \in keep /\ e[2] \in keep}
  IN  [node |-> [n \in keep |-> G.node[n]],
       adj |-> [e \in pairs |-> G.adj[e]]]

(***************************************************************************)
(* KnowledgeGraph.__init__                                                 *)
(***************************************************************************)
ZeroStats ==
  [node_count |-> 0, edge_count |-> 0, subject_count |-> 0,
   object_count |-> 0, relation_types |-> {}]

NewStore == [graph |-> EmptyGraph, stats |-> ZeroStats]

NoCall == [op |-> "init", args |-> <<>>, ret |-> <<>>]

\* No GraphML file has been written.
NoFile == [exists |-> FALSE]

\* A component that has not been started.
Idle == [pc |-> "idle"]

Init ==
  /\ graph = NewStore.graph
  /\ stats = NewStore.stats
  /\ last = NoCall
  /\ calls = 0
  /\ seen = {}
  /\ firstRole = EmptyDict
  /\ file = NoFile
  /\ pipe = Idle
  /\ resp = Idle
  /\ seg = Idle
  /\ retr = Idle
  /\ kag = Idle

(***************************************************************************)
(* KnowledgeGraph.add_triplet.  A store S is the pair [graph, stats].      *)
(***************************************************************************)
\* lines 44-46: the subject node is created, tagged 'subject', and counted,
\* only if the graph has no node of that name.
ensure_subject(S, subject) ==
  IF has_node(S.graph, subject)
  THEN S
  ELSE [graph |-> add_node(S.graph, subject, [k \in {"type"} |-> Str("subject")]),
        stats |-> [S.stats EXCEPT !.subject_count = @ + 1]]

\* Variant: the object node is tagged on every call.
ensure_object_always(S, obj) ==
  [graph |-> add_node(S.graph, obj, [k \in {"type"} |-> Str("object")]),
   stats |-> IF has_node(S.graph, obj)
             THEN S.stats
             ELSE [S.stats EXCEPT !.object_count = @ + 1]]

\* lines 48-50: the same for the object node, tagged 'object'.
ensure_object(S, obj) ==
  IF has_node(S.graph, obj)
  THEN S
  ELSE [graph |-> add_node(S.graph, obj, [k \in {"type"} |-> Str("object")]),
        stats |-> [S.stats EXCEPT !.object_count = @ + 1]]

\* lines 53-55: {'relation': relation} updated with the caller's properties
\* (an empty or absent properties dict is skipped by "if properties").
edge_props(relation, properties) ==
  IF properties = EmptyDict
  THEN [k \in {"relation"} |-> Str(relation)]
  ELSE Update([k \in {"relation"} |-> Str(relation)], properties)

\* lines 43-63
add_triplet(S, subject, relation, obj, properties) ==
  LET S1 == ensure_subject(S, subject)
      S2 == ensure_object(S1, obj)
      G3 == add_edge(S2.graph, subject, obj, edge_props(relation, properties))
  IN  [graph |-> G3,
       stats |-> [S2.stats EXCEPT
                    !.node_count = number_of_nodes(G3),
                    !.edge_count = number_of_edges(G3),
                    !.relation_types = @ \cup {relation}]]

\* Role in which a name first appears in an add_triplet call: the subject
\* test runs before the object test, so a name that is new as both is a
\* subject.
RoleAtFirstUse(known, subject, obj) ==
  [n \in {subject, obj} \ known |-> IF n = subject THEN "subject" ELSE "object"]

AddTriplet(subject, relation, obj, properties) ==
  /\ calls < MaxCalls
  /\ LET S == add_triplet([graph |-> graph, stats |-> stats],
                          subject, relation, obj, properties)
     IN  /\ graph' = S.graph
         /\ stats' = S.stats
  /\ last' = [op |-> "add_triplet",
              args |-> [subject |-> subject, relation |-> relation,
                        obj |-> obj, properties |-> properties],
              ret |-> <<>>]
  /\ calls' = calls + 1
  /\ seen' = seen \cup {subject, obj}
  /\ firstRole' = Update(firstRole, RoleAtFirstUse(seen, subject, obj))
  /\ UNCHANGED nonStoreVars

(***************************************************************************)
(* KnowledgeGraph.clear                                                    *)
(***************************************************************************)
\* Variant: the graph is emptied and the counters are left as they were.
clear_keeping_stats(S) == [graph |-> EmptyGraph, stats |-> S.stats]

\* lines 234-241
clear(S) == [graph |-> EmptyGraph, stats |-> ZeroStats]

\* args records the nodes the store held when clear was called.
Clear ==
  /\ LET S == clear([graph |-> graph, stats |-> stats])
     IN  /\ graph' = S.graph
         /\ stats' = S.stats
  /\ last' = [op |-> "clear", args |-> graph.node, ret |-> <<>>]
  /\ calls' = 0
  /\ seen' = {}
  /\ firstRole' = EmptyDict
  /\ UNCHANGED nonStoreVars

(***************************************************************************)
(* KnowledgeGraph.get_stats                                                *)
(***************************************************************************)
\* lines 221-222: the two cardinalities are re-read from the graph; the
\* other three fields are the stored counters.
refresh_stats(S) ==
  [S.stats EXCEPT !.node_count = number_of_nodes(S.graph),
                  !.edge_count = number_of_edges(S.graph)]

\* lines 225-228: a copy of the refreshed stats; relation_types is returned
\* as a list of the set's elements, kept here as the set of its elements.
get_stats(S) == refresh_stats(S)

GetStats ==
  /\ stats' = refresh_stats([graph |-> graph, stats |-> stats])
  /\ last' = [op |-> "get_stats", args |-> <<>>,
              ret |-> get_stats([graph |-> graph, stats |-> stats])]
  /\ UNCHANGED <<graph, calls, seen, firstRole>>
  /\ UNCHANGED nonStoreVars

(***************************************************************************)
(* KnowledgeGraph.get_subgraph_for_node                                    *)
(***************************************************************************)
\* Variant: only outgoing edges are followed.
expand_successors_only(G, ns) ==
  ns \cup UNION {successors(G, n) : n \in ns}

\* lines 148-154, one round of the loop: the successors and predecessors of
\* every node collected so far are added.
expand(G, ns) ==
  ns \cup UNION {successors(G, n) \cup predecessors(G, n) : n \in ns}

RECURSIVE nodes_to_include(_, _, _)
\* lines 144-154: "for _ in range(distance)" applied to the start set.
nodes_to_include(G, ns, rounds) ==
  IF rounds <= 0 THEN ns ELSE nodes_to_include(G, expand(G, ns), rounds - 1)

\* Variant: the loop runs once more than asked.
get_subgraph_one_round_more(G, node, distance) ==
  IF ~has_node(G, node)
  THEN EmptyGraph
  ELSE subgraph(G, nodes_to_include(G, {node}, distance + 1))

\* lines 140-157
get_subgraph_for_node(G, node, distance) ==
  IF ~has_node(G, node)
  THEN EmptyGraph
  ELSE subgraph(G, nodes_to_include(G, {node}, distance))

GetSubgraphForNode(node, distance) ==
  /\ last' = [op |-> "get_subgraph_for_node",
              args |-> [node |-> node, distance |-> distance],
              ret |-> get_subgraph_for_node(graph, node, distance)]
  /\ UNCHANGED <<graph, stats, calls, seen, firstRole>>
  /\ UNCHANGED nonStoreVars

(***************************************************************************)
(* KnowledgeGraph.get_relations_between                                    *)
(***************************************************************************)
Returned(value) == [raised |-> FALSE, value |-> value]

Raised == [raised |-> TRUE, value |-> <<>>]

\* dict.update(x) for a stored attribute value x: an empty string is an
\* empty iterable and changes nothing; a non-empty string raises ValueError
\* (its elements are not pairs) and a number raises TypeError (not iterable).
dict_update_accepts(x) == x.t = "str" /\ x.v = ""

\* lines 196-201 and 204-209: get_edge_data of a DiGraph is the attribute
\* dict of the edge, so the loop "for key, attrs in edge_data.items()" runs
\* once per attribute, with attrs bound to the attribute's value, and
\* relation_info.update(attrs) is applied to that value.
relations_in_direction(G, u, v, direction, other_node) ==
  IF ~has_edge(G, u, v)
  THEN Returned(<<>>)
  ELSE LET edge_data == G.adj[<<u, v>>]
           relation_info == [k \in {"direction", "other_node"} |->
                               IF k = "direction" THEN Str(direction)
                                                  ELSE Str(other_node)]
       IN  IF \E key \in DOMAIN edge_data : ~dict_update_accepts(edge_data[key])
           THEN Raised
           ELSE Returned([i \in 1..Cardinality(DOMAIN edge_data) |-> relation_info])

\* lines 189-211: other_node is node2 in both directions.
get_relations_between(G, node1, node2) ==
  IF ~has_node(G, node1) \/ ~has_node(G, node2)
  THEN Returned(<<>>)
  ELSE LET out == relations_in_direction(G, node1, node2, "outgoing", node2)
           inc == relations_in_direction(G, node2, node1, "incoming", node2)
       IN  IF out.raised \/ inc.raised
           THEN Raised
           ELSE Returned(out.value \o inc.value)

GetRelationsBetween(node1, node2) ==
  /\ last' = [op |-> "get_relations_between",
              args |-> [node1 |-> node1, node2 |-> node2],
              ret |-> get_relations_between(graph, node1, node2)]
  /\ UNCHANGED <<graph, stats, calls, seen, firstRole>>
  /\ UNCHANGED nonStoreVars

(***************************************************************************)
(* KnowledgeGraph.compare_to_graph                                         *)
(***************************************************************************)
\* Variant: the denominator adds the two sizes instead of taking the union.
jaccard_over_sum(A, B) ==
  IF A \cup B # {}
  THEN [num |-> Cardinality(A \cap B), den |-> Cardinality(A) + Cardinality(B)]
  ELSE [num |-> 0, den |-> 1]

\* lines 303-304: len(A & B) / len(A | B) if A | B else 0
jaccard(A, B) ==
  IF A \cup B # {}
  THEN [num |-> Cardinality(A \cap B), den |-> Cardinality(A \cup B)]
  ELSE [num |-> 0, den |-> 1]

\* lines 299-300: (u, v, d.get('relation', ''))
edge_triples(G) ==
  {<<e[1], e[2], IF "relation" \in DOMAIN G.adj[e]
                 THEN G.adj[e]["relation"] ELSE Str("")>> : e \in DOMAIN G.adj}

\* line 309: (jaccard_nodes + jaccard_edges) / 2
mean_of(x, y) ==
  [num |-> x.num * y.den + y.num * x.den, den |-> 2 * x.den * y.den]

\* lines 295-310
compare_to_graph(G, other_graph) ==
  LET jaccard_nodes == jaccard(DOMAIN G.node, DOMAIN other_graph.node)
      jaccard_edges == jaccard(edge_triples(G), edge_triples(other_graph))
  IN  [node_similarity |-> jaccard_nodes,
       edge_similarity |-> jaccard_edges,
       overall_similarity |-> mean_of(jaccard_nodes, jaccard_edges)]

\* The caller passes its own graph, or another graph (here the empty one).
CompareToGraph(other_graph) ==
  /\ last' = [op |-> "compare_to_graph",
              args |-> other_graph,
              ret |-> compare_to_graph(graph, other_graph)]
  /\ UNCHANGED <<graph, stats, calls, seen, firstRole>>
  /\ UNCHANGED nonStoreVars

(***************************************************************************)
(* Specification of the graph store.                                       *)
(***************************************************************************)
Next ==
  \/ \E subject \in Entities, relation \in RelationLabels,
        obj \in Entities, properties \in Props :
       AddTriplet(subject, relation, obj, properties)
  \/ Clear
  \/ GetStats
  \/ \E node \in Entities, distance \in Distances :
       GetSubgraphForNode(node, distance)
  \/ \E node1 \in Entities, node2 \in Entities :
       GetRelationsBetween(node1, node2)
  \/ \E other_graph \in {graph, EmptyGraph} : CompareToGraph(other_graph)

Spec == Init /\ [][Next]_vars

TypeOK ==
  /\ calls \in 0..MaxCalls
  /\ seen \subseteq Entities
  /\ DOMAIN graph.node \subseteq Entities
  /\ DOMAIN graph.adj \subseteq Entities \X Entities

(***************************************************************************)
(* Vocabulary of the properties.                                           *)
(***************************************************************************)
Store == [graph |-> graph, stats |-> stats]

\* Number of stored edges u -> v, and the attribute dicts they carry.
edges_between(G, u, v) == IF has_edge(G, u, v) THEN 1 ELSE 0

attrs_between(G, u, v) == IF has_edge(G, u, v) THEN {G.adj[<<u, v>>]} ELSE {}

\* A returned entry carries every attribute of a stored edge.
Carries(entry, attrs) ==
  \A k \in DOMAIN attrs : k \in DOMAIN entry /\ entry[k] = attrs[k]

NodesTagged(G, role) ==
  {n \in DOMAIN G.node :
     "type" \in DOMAIN G.node[n] /\ G.node[n]["type"] = Str(role)}

IsOne(q) == q.num = q.den

IsZero(q) == q.num = 0

Linked(G, u, v) == has_edge(G, u, v) \/ has_edge(G, v, u)

\* Entities at most d steps from e along edges followed in either direction.
Ball(G, e, d) ==
  {n \in DOMAIN G.node :
     \E k \in 1..(d + 1) :
       \E walk \in [1..k -> DOMAIN G.node] :
         /\ walk[1] = e
         /\ walk[k] = n
         /\ \A i \in 1..(k - 1) : Linked(G, walk[i], walk[i + 1])}

(***************************************************************************)
(* Properties of the graph store.                                          *)
(***************************************************************************)
\* C1: the edge count reported by get_stats equals the number of add_triplet
\* calls made since the store was empty, repeated (subject, object) pairs
\* included.
C1_EdgeCountIsCallCount ==
  last.op = "get_stats" => last.ret.edge_count = calls

\* C2: add_triplet never overwrites: when the pair (subject, object) already
\* has an edge, the call adds one more edge for the pair, the earlier edge
\* keeps its relation and properties, and the new one carries the new ones.
C2_ParallelEdgeAdded ==
  [][(last'.op = "add_triplet" /\ calls' = calls + 1
        /\ has_edge(graph, last'.args.subject, last'.args.obj))
     => LET s == last'.args.subject
            o == last'.args.obj
        IN  /\ edges_between(graph', s, o) = edges_between(graph, s, o) + 1
            /\ attrs_between(graph, s, o) \subseteq attrs_between(graph', s, o)
            /\ edge_props(last'.args.relation, last'.args.properties)
                 \in attrs_between(graph', s, o)]_vars

\* C3: for two entities of the store, get_relations_between returns normally
\* with one 'outgoing' entry per stored edge a -> b and one 'incoming' entry
\* per stored edge b -> a, each with the edge's relation and properties.
C3_RelationsBetweenComplete ==
  (last.op = "get_relations_between"
     /\ has_node(graph, last.args.node1) /\ has_node(graph, last.args.node2))
  => LET a == last.args.node1
         b == last.args.node2
         val == last.ret.value
         outgoing == {i \in DOMAIN val : val[i]["direction"] = Str("outgoing")}
         incoming == {i \in DOMAIN val : val[i]["direction"] = Str("incoming")}
     IN  /\ ~last.ret.raised
         /\ outgoing \cup incoming = DOMAIN val
         /\ Cardinality(outgoing) = edges_between(graph, a, b)
         /\ Cardinality(incoming) = edges_between(graph, b, a)
         /\ \A i \in outgoing : Carries(val[i], graph.adj[<<a, b>>])
         /\ \A i \in incoming : Carries(val[i], graph.adj[<<b, a>>])

\* C4: get_stats returns the relation labels carried by the current edges,
\* and subject/object counts equal to the numbers of current nodes tagged
\* subject/object, which add up to the node count.
C4_StatsReflectLiveStore ==
  last.op = "get_stats"
  => /\ last.ret.relation_types
          = {graph.adj[e]["relation"].v : e \in DOMAIN graph.adj}
     /\ last.ret.subject_count = Cardinality(NodesTagged(graph, "subject"))
     /\ last.ret.object_count = Cardinality(NodesTagged(graph, "object"))
     /\ last.ret.subject_count + last.ret.object_count = last.ret.node_count

\* C5: the node count equals the number of distinct strings passed as
\* subject or object since the last clear (exact string equality, the empty
\* string included, a triplet with subject = object adding one node).
C5_NodeCountIsDistinctNames ==
  /\ DOMAIN graph.node = seen
  /\ stats.node_count = Cardinality(seen)
  /\ last.op = "get_stats" => last.ret.node_count = Cardinality(seen)

C5_Witness ==
  /\ last.op = "add_triplet"
  /\ last.args.subject = "" /\ last.args.obj = ""
  /\ seen = {"", "a", "A"}
  /\ stats.node_count = 3

\* C6: an entity's role tag is the role of its first appearance in an
\* add_triplet call (subject when it first appears as both) and no later
\* add_triplet call changes it.
C6_RoleTagFixedAtFirstUse ==
  /\ DOMAIN firstRole = seen
  /\ \A n \in seen :
       /\ has_node(graph, n)
       /\ DOMAIN graph.node[n] = {"type"}
       /\ graph.node[n]["type"] = Str(firstRole[n])

C6_Witness ==
  /\ last.op = "add_triplet"
  /\ calls = 2
  /\ last.args.obj # last.args.subject
  /\ firstRole[last.args.obj] = "subject"
  /\ graph.node[last.args.obj]["type"] = Str("subject")

\* C7: clear leaves the store as a newly constructed one (no node, no edge,
\* every count 0, no relation type), and an entity that existed before the
\* clear is tagged by its first insertion after it.
C7_ClearGivesNewStore ==
  /\ [](last.op = "clear"
          => /\ Store = NewStore
             /\ get_stats(Store) = ZeroStats)
  /\ [][(last.op = "clear" /\ last'.op = "add_triplet")
        => LET s == last'.args.subject
               o == last'.args.obj
           IN  /\ DOMAIN graph'.node = {s, o}
               /\ graph'.node[s]["type"] = Str("subject")
               /\ o # s => graph'.node[o]["type"] = Str("object")
               /\ Cardinality(DOMAIN graph'.adj) = 1
               /\ stats'.relation_types = {last'.args.relation}]_vars

C7_Witness ==
  /\ last.op = "clear"
  /\ \E n \in DOMAIN last.args : last.args[n]["type"] = Str("object")
  /\ \E n \in DOMAIN last.args : last.args[n]["type"] = Str("subject")
  /\ Store = NewStore

\* C8 as stated: comparing the store to its own graph yields node, edge and
\* overall similarity 1.0 in every reachable state, the empty store included.
C8_SelfCompareAlwaysOne ==
  (last.op = "compare_to_graph" /\ last.args = graph)
  => /\ IsOne(last.ret.node_similarity)
     /\ IsOne(last.ret.edge_similarity)
     /\ IsOne(last.ret.overall_similarity)

\* C8 amended: comparing a store that holds at least one relation to its own
\* graph yields node, edge and overall similarity 1.0; for the empty store
\* the three similarities are 0.
C8_SelfCompareOneUnlessEmpty ==
  (last.op = "compare_to_graph" /\ last.args = graph)
  => IF DOMAIN graph.adj # {}
     THEN /\ IsOne(last.ret.node_similarity)
          /\ IsOne(last.ret.edge_similarity)
          /\ IsOne(last.ret.overall_similarity)
     ELSE /\ DOMAIN graph.node = {}
          /\ IsZero(last.ret.node_similarity)
          /\ IsZero(last.ret.edge_similarity)
          /\ IsZero(last.ret.overall_similarity)

C8_Witness ==
  /\ last.op = "compare_to_graph"
  /\ last.args = graph
  /\ Cardinality(DOMAIN graph.adj) = 2
  /\ IsOne(last.ret.overall_similarity)

\* C9 as stated: for an entity e of the store, get_subgraph_for_node(e, 0)
\* has node set {e} and no edge, whatever edges touch e.
C9_DistanceZeroHasNoEdge ==
  (last.op = "get_subgraph_for_node" /\ last.args.distance = 0
     /\ has_node(graph, last.args.node))
  => /\ DOMAIN last.ret.node = {last.args.node}
     /\ DOMAIN last.ret.adj = {}

\* C9 amended: for an entity e of the store, get_subgraph_for_node(e, 0) has
\* node set {e}, and its only possible edge is the edge from e to itself,
\* present (with its attributes) exactly when the store holds it.
C9_DistanceZeroIsNodeWithOwnLoop ==
  (last.op = "get_subgraph_for_node" /\ last.args.distance = 0
     /\ has_node(graph, last.args.node))
  => LET e == last.args.node
     IN  /\ DOMAIN last.ret.node = {e}
         /\ last.ret.node[e] = graph.node[e]
         /\ DOMAIN last.ret.adj = {<<e, e>>} \cap DOMAIN graph.adj
         /\ \A p \in DOMAIN last.ret.adj : last.ret.adj[p] = graph.adj[p]

C9_Witness ==
  /\ last.op = "get_subgraph_for_node"
  /\ last.args.distance = 0
  /\ has_edge(graph, last.args.node, last.args.node)
  /\ \E m \in DOMAIN graph.node :
       m # last.args.node /\ Linked(graph, last.args.node, m)
  /\ DOMAIN last.ret.adj = {<<last.args.node, last.args.node>>}

\* C10: for an entity e of the store, get_subgraph_for_node(e, d) is the
\* induced subgraph over the entities at most d steps from e along edges
\* followed in either direction, so its node set is contained in the one for
\* d + 1; for an entity that is not in the store it is the empty graph.
C10_SubgraphIsInducedBall ==
  last.op = "get_subgraph_for_node"
  => LET e == last.args.node
         d == last.args.distance
         ball == Ball(graph, e, d)
     IN  IF has_node(graph, e)
         THEN /\ DOMAIN last.ret.node = ball
              /\ \A n \in ball : last.ret.node[n] = graph.node[n]
              /\ DOMAIN last.ret.adj
                   = {p \in DOMAIN graph.adj : p[1] \in ball /\ p[2] \in ball}
              /\ \A p \in DOMAIN last.ret.adj : last.ret.adj[p] = graph.adj[p]
              /\ ball \subseteq DOMAIN get_subgraph_for_node(graph, e, d + 1).node
         ELSE last.ret = EmptyGraph

C10_Witness ==
  /\ last.op = "get_subgraph_for_node"
  /\ last.args.distance = 2
  /\ successors(graph, last.args.node) = {}
  /\ Cardinality(Ball(graph, last.args.node, 1)) = 2
  /\ Cardinality(DOMAIN last.ret.node) = 3
  /\ Cardinality(DOMAIN last.ret.adj) = 2

(***************************************************************************)
(* Part 2: persistence of the graph store, KnowledgeGraph.save_to_graphml  *)
(* and load_from_graphml (networkx write_graphml / read_graphml).          *)
(*                                                                         *)
(* A GraphML file holds, for every node and edge, one <data> element per   *)
(* attribute: the declared type of the attribute's key and the text        *)
(* str(value).  The text of an int is its decimal numeral, kept here as    *)
(* the number it denotes.                                                  *)
(***************************************************************************)
\* GraphMLWriter: the <data> element written for one attribute value.
graphml_data(x) ==
  [type |-> IF x.t = "str" THEN "string" ELSE "long", text |-> x.v]

\* GraphMLWriter: the <data> elements of one node or edge.
graphml_attributes(attrs) == [k \in DOMAIN attrs |-> graphml_data(attrs[k])]

\* nx.write_graphml(self.graph, filename)
write_graphml(G) ==
  [node |-> [n \in DOMAIN G.node |-> graphml_attributes(G.node[n])],
   adj |-> [e \in DOMAIN G.adj |-> graphml_attributes(G.adj[e])]]

\* GraphMLReader.decode_data_elements: an element without text (what the XML
\* parser returns for an empty string) is skipped; any other text is
\* converted with the key's type.
decode_data_elements(data) ==
  LET present == {k \in DOMAIN data :
                    ~(data[k].type = "string" /\ data[k].text = "")}
  IN  [k \in present |->
         IF data[k].type = "string" THEN Str(data[k].text) ELSE Num(data[k].text)]

\* nx.read_graphml(filename)
read_graphml(F) ==
  [node |-> [n \in DOMAIN F.node |-> decode_data_elements(F.node[n])],
   adj |-> [e \in DOMAIN F.adj |-> decode_data_elements(F.adj[e])]]

\* lines 262-280: the stats rebuilt by scanning the loaded graph.
scan_stats(G) ==
  [node_count |-> number_of_nodes(G),
   edge_count |-> number_of_edges(G),
   subject_count |->
     Cardinality({n \in DOMAIN G.node :
        "type" \in DOMAIN G.node[n] /\ G.node[n]["type"] = Str("subject")}),
   object_count |->
     Cardinality({n \in DOMAIN G.node :
        "type" \in DOMAIN G.node[n] /\ G.node[n]["type"] = Str("object")}),
   relation_types |->
     {G.adj[e]["relation"].v :
        e \in {p \in DOMAIN G.adj : "relation" \in DOMAIN G.adj[p]}}]

\* lines 259-280
load_from_graphml(F) ==
  LET G == read_graphml(F) IN [graph |-> G, stats |-> scan_stats(G)]

\* line 250.  "origin" remembers the store the file was written from and the
\* get_stats result it gave at that time.
SaveToGraphml ==
  /\ file' = [exists |-> TRUE,
              graphml |-> write_graphml(graph),
              origin |-> [graph |-> graph, stats |-> get_stats(Store)]]
  /\ last' = [op |-> "save_to_graphml", args |-> <<>>, ret |-> <<>>]
  /\ UNCHANGED <<graph, stats, calls, seen, firstRole, pipe, resp, seg, retr, kag>>

\* lines 259-280.  Loading a file that does not exist raises before any
\* assignment, so only the load of a written file changes the store.
LoadFromGraphml ==
  /\ file.exists
  /\ LET S == load_from_graphml(file.graphml)
     IN  /\ graph' = S.graph
         /\ stats' = S.stats
  /\ last' = [op |-> "load_from_graphml", args |-> <<>>, ret |-> <<>>]
  /\ UNCHANGED <<calls, seen, firstRole, file, pipe, resp, seg, retr, kag>>

NextGraphml ==
  \/ \E subject \in Entities, relation \in RelationLabels,
        obj \in Entities, properties \in Props :
       AddTriplet(subject, relation, obj, properties)
  \/ SaveToGraphml
  \/ LoadFromGraphml

SpecGraphml == Init /\ [][NextGraphml]_vars

\* C11: a store loaded from a file has the nodes, role tags, edges, relation
\* labels and properties of the store the file was saved from, and its
\* get_stats result equals the one that store gave when it was saved.
C11_RoundTripRestoresStore ==
  last.op = "load_from_graphml"
  => /\ graph = file.origin.graph
     /\ get_stats(Store) = file.origin.stats

(***************************************************************************)
(* Part 3: parsing of a completion, TripletExtractor                       *)
(* .extract_triplets_with_context of                                       *)
(* src/modules/doc_extraction/triplet_extractor.py, lines 125-176.         *)
(*                                                                         *)
(* A completion is a string, kept as the sequence of its lexical pieces:   *)
(* an opening bracket, a closing bracket, a comma, a JSON object literal   *)
(* (with the dict it denotes), a JSON number literal, or a stretch of      *)
(* prose that is not JSON.  Literals and prose contain no bracket.         *)
(***************************************************************************)
MaxPieces == 5

None == [t |-> "none"]

LB == [k |-> "[", v |-> EmptyDict]

RB == [k |-> "]", v |-> EmptyDict]

Comma == [k |-> ",", v |-> EmptyDict]

Prose == [k |-> "prose", v |-> EmptyDict]

Number == [k |-> "number", v |-> EmptyDict]

Obj(d) == [k |-> "object", v |-> d]

\* The objects a completion may hold: a triplet with its context, a triplet
\* without sentence and confidence, and an object without "object".
Objects ==
  { [k \in {"subject", "relation", "object", "sentence", "confidence"} |->
       IF k = "confidence" THEN Num(95) ELSE Str(k)],
    [k \in {"subject", "relation", "object"} |-> Str(k)],
    [k \in {"subject", "relation"} |-> Str(k)] }

Pieces == {LB, RB, Comma, Prose, Number} \cup {Obj(d) : d \in Objects}

\* str.find and str.rfind for a one-character pattern: the 0-based position
\* of its first (last) occurrence, -1 when there is none.
find(s, c) ==
  LET at == {i \in 1..Len(s) : s[i].k = c}
  IN  IF at = {} THEN -1 ELSE (CHOOSE i \in at : \A j \in at : i <= j) - 1

rfind_first(s, c) == find(s, c)

rfind(s, c) ==
  LET at == {i \in 1..Len(s) : s[i].k = c}
  IN  IF at = {} THEN -1 ELSE (CHOOSE i \in at : \A j \in at : i >= j) - 1

\* s[lo:hi] for 0 <= lo < hi <= len(s)
slice(s, lo, hi) == SubSeq(s, lo + 1, hi)

JsonError == [ok |-> FALSE]

JsonDict(d) == [t |-> "dict", v |-> d]

JsonNumber == [t |-> "number"]

JsonList(l) == [t |-> "list", v |-> l]

\* json.loads, by recursive descent over the pieces.  parse_value reads one
\* value starting at position i (1-based) and answers the value and the
\* position after it; parse_elements reads "value (, value)* ]".
RECURSIVE parse_value(_, _)
RECURSIVE parse_elements(_, _, _)
parse_value(s, i) ==
  IF i > Len(s) THEN JsonError
  ELSE IF s[i].k = "object" THEN [ok |-> TRUE, val |-> JsonDict(s[i].v), next |-> i + 1]
  ELSE IF s[i].k = "number" THEN [ok |-> TRUE, val |-> JsonNumber, next |-> i + 1]
  ELSE IF s[i].k = "["
       THEN IF i + 1 <= Len(s) /\ s[i + 1].k = "]"
            THEN [ok |-> TRUE, val |-> JsonList(<<>>), next |-> i + 2]
            ELSE parse_elements(s, i + 1, <<>>)
  ELSE JsonError

parse_elements(s, i, acc) ==
  LET r == parse_value(s, i)
  IN  IF ~r.ok THEN JsonError
      ELSE IF r.next > Len(s) THEN JsonError
      ELSE IF s[r.next].k = ","
           THEN parse_elements(s, r.next + 1, Append(acc, r.val))
      ELSE IF s[r.next].k = "]"
           THEN [ok |-> TRUE, val |-> JsonList(Append(acc, r.val)), next |-> r.next + 1]
      ELSE JsonError

\* json.loads(json_str): the whole string must be one value; anything else
\* is a JSONDecodeError.
json_loads(s) ==
  LET r == parse_value(s, 1)
  IN  IF r.ok /\ r.next = Len(s) + 1 THEN [ok |-> TRUE, val |-> r.val] ELSE JsonError

\* dict.get(key, default)
get(d, key, default) == IF key \in DOMAIN d THEN d[key] ELSE default

\* Line 152: isinstance(t, dict) and the three keys are in t.
is_valid_triplet(t) ==
  t.t = "dict" /\ {"subject", "relation", "object"} \subseteq DOMAIN t.v

\* Lines 154-160: the dict built for an accepted element.
valid_triplet(t) ==
  [k \in {"subject", "relation", "object", "sentence", "confidence"} |->
     IF k = "sentence" THEN get(t.v, "sentence", Str(""))
     ELSE IF k = "confidence" THEN get(t.v, "confidence", None)
     ELSE t.v[k]]

\* Lines 150-164: the loop over the elements of the parsed array.
RECURSIVE valid_triplets(_)
valid_triplets(triplets_data) ==
  IF triplets_data = <<>> THEN <<>>
  ELSE LET t == Head(triplets_data)
           rest == valid_triplets(Tail(triplets_data))
       IN  IF is_valid_triplet(t) THEN <<valid_triplet(t)>> \o rest ELSE rest

\* Lines 125-176: what extract_triplets_with_context returns for the
\* completion `response`: None, or the string Str(pieces).
parse_response(response) ==
  IF response.t = "none" THEN <<>>
  ELSE LET json_start == find(response.v, "[")
           json_end == rfind(response.v, "]") + 1
       IN  IF json_start >= 0 /\ json_end > json_start
           THEN LET triplets_data == json_loads(slice(response.v, json_start, json_end))
                IN  IF triplets_data.ok THEN valid_triplets(triplets_data.val.v) ELSE <<>>
           ELSE <<>>

\* extract_triplets, lines 98-99: the comprehension over the parsed array.
\* "'subject' in t" is evaluated for every element: it is a key test for a
\* dict, a membership test (False here) for a list, and a TypeError for a
\* number, which is not iterable.
RECURSIVE tuples_of(_)
tuples_of(triplets_data) ==
  IF triplets_data = <<>> THEN Returned(<<>>)
  ELSE LET t == Head(triplets_data)
           rest == tuples_of(Tail(triplets_data))
       IN  IF t.t = "number" THEN Raised
           ELSE IF rest.raised THEN Raised
           ELSE IF t.t = "dict" /\ {"subject", "relation", "object"} \subseteq DOMAIN t.v
                THEN Returned(<<<<t.v["subject"], t.v["relation"], t.v["object"]>>>>
                              \o rest.value)
                ELSE rest

\* extract_triplets, lines 87-111, for the completion `response`; only
\* json.JSONDecodeError is caught.
extract_triplets(response) ==
  IF response.t = "none" THEN Returned(<<>>)
  ELSE LET json_start == find(response.v, "[")
           json_end == rfind(response.v, "]") + 1
       IN  IF json_start >= 0 /\ json_end > json_start
           THEN LET triplets_data == json_loads(slice(response.v, json_start, json_end))
                IN  IF triplets_data.ok THEN tuples_of(triplets_data.val.v)
                    ELSE Returned(<<>>)
           ELSE Returned(<<>>)

\* The completion service produces the next piece of its answer
\* (NvidiaLLMClient.query, the content of the response).
received == IF resp.pc = "receiving" THEN resp.response.v ELSE <<>>

Receive(piece) ==
  /\ resp.pc \in {"idle", "receiving"}
  /\ Len(received) < MaxPieces
  /\ resp' = [pc |-> "receiving", response |-> Str(Append(received, piece))]
  /\ UNCHANGED <<graph, stats, last, calls, seen, firstRole, file, pipe, seg, retr, kag>>

\* The parsing parts of extract_triplets_with_context (ret) and of
\* extract_triplets (tuples) run on the completion: the string received, or
\* None when the service answered without content.
ParseResponse(response) ==
  /\ resp.pc \in {"idle", "receiving"}
  /\ resp' = [pc |-> "returned", response |-> response, ret |-> parse_response(response),
              tuples |-> extract_triplets(response)]
  /\ UNCHANGED <<graph, stats, last, calls, seen, firstRole, file, pipe, seg, retr, kag>>

NextParse ==
  \/ \E piece \in Pieces : Receive(piece)
  \/ \E response \in {Str(received), None} : ParseResponse(response)

SpecParse == Init /\ [][NextParse]_vars

\* The array a completion holds: the value of the pieces from its first
\* opening bracket to its last closing bracket when they parse as JSON.
HasRegion(s) ==
  \E i, j \in 1..Len(s) : i < j /\ s[i].k = "[" /\ s[j].k = "]"

Region(s) ==
  LET i == CHOOSE x \in 1..Len(s) : s[x].k = "[" /\ \A y \in 1..(x - 1) : s[y].k # "["
      j == CHOOSE x \in 1..Len(s) : s[x].k = "]" /\ \A y \in (x + 1)..Len(s) : s[y].k # "]"
  IN  SubSeq(s, i, j)

HoldsArray(s) == HasRegion(s) /\ json_loads(Region(s)).ok

ArrayOf(s) == json_loads(Region(s)).val.v

IsTripletObject(e) ==
  e.t = "dict" /\ "subject" \in DOMAIN e.v /\ "relation" \in DOMAIN e.v
               /\ "object" \in DOMAIN e.v

\* C18: the triplets returned for a completion are, in array order, the
\* elements of the array between its first '[' and its last ']' that are
\* objects with subject, relation and object; each keeps these three fields,
\* a missing sentence becomes the empty string and a missing confidence
\* becomes None; a completion that holds no such array gives no triplet.
C18_ParseKeepsTripletObjectsInOrder ==
  (resp.pc = "returned" /\ resp.response.t = "str")
  => LET s == resp.response.v
         kept == IF HoldsArray(s) THEN SelectSeq(ArrayOf(s), IsTripletObject) ELSE <<>>
     IN  /\ Len(resp.ret) = Len(kept)
         /\ \A i \in 1..Len(kept) :
              /\ DOMAIN resp.ret[i] = {"subject", "relation", "object", "sentence", "confidence"}
              /\ resp.ret[i].subject = kept[i].v.subject
              /\ resp.ret[i].relation = kept[i].v.relation
              /\ resp.ret[i].object = kept[i].v.object
              /\ resp.ret[i].sentence =
                   (IF "sentence" \in DOMAIN kept[i].v THEN kept[i].v.sentence ELSE Str(""))
              /\ resp.ret[i].confidence =
                   (IF "confidence" \in DOMAIN kept[i].v THEN kept[i].v.confidence ELSE None)

\* A completion with prose around an array of two elements, of which one is
\* discarded and the other is kept with the defaults filled in.
C18_Witness ==
  /\ resp.pc = "returned" /\ resp.response.t = "str"
  /\ HoldsArray(resp.response.v)
  /\ Len(ArrayOf(resp.response.v)) = 2
  /\ Len(resp.ret) = 1
  /\ resp.ret[1].sentence = Str("") /\ resp.ret[1].confidence = None

(***************************************************************************)
(* Part 4: the multi-level extraction pipeline, main of                    *)
(* src/test_pdf_extraction.py (lines 93-147), with split_text,             *)
(* format_triplets_for_next_level and the extractor it calls.              *)
(*                                                                         *)
(* A text is kept by its structure.  A document is the sequence of the     *)
(* sentences that text.split('. ') yields, each with its number of         *)
(* characters and whether it begins with the heading of a digest; a chunk  *)
(* is the sentences joined by '. ' with a final '.'; a digest is the       *)
(* heading of its level followed by one line per triplet.                  *)
(***************************************************************************)
MaxSentences == 3

MaxLevel == 3

split_max_tokens == 2000

Sentences ==
  { [chars |-> 0, digest |-> FALSE],
    [chars |-> 44, digest |-> FALSE],
    [chars |-> 44, digest |-> TRUE],
    [chars |-> 7996, digest |-> FALSE] }

Document(sentences) == [kind |-> "document", sentences |-> sentences]

Chunk(sentences) == [kind |-> "chunk", sentences |-> sentences]

Digest(level, facts) == [kind |-> "digest", level |-> level, facts |-> facts]

Texts == {Document(q) : q \in UNION {[1..n -> Sentences] : n \in 1..MaxSentences}}

Levels == 1..MaxLevel

\* What llm_client.query does on one call: it raises (the service call
\* failed), returns None, or returns a string.
ServiceError == [t |-> "error"]

Replies ==
  { ServiceError, None,
    Str(<<Prose>>),
    Str(<<LB, Prose, RB>>),
    Str(<<LB, Obj([k \in {"subject", "relation", "object", "sentence", "confidence"} |->
                     IF k = "confidence" THEN Num(95) ELSE Str(k)]), RB>>),
    Str(<<LB, Obj([k \in {"subject", "relation", "object"} |-> Str(k)]), RB>>) }

\* not text
is_empty(text) ==
  text.kind = "document" /\ \A n \in DOMAIN text.sentences : text.sentences[n].chars = 0
                         /\ Len(text.sentences) = 1

\* split_text, lines 25-48: st is the state of the loop, [chunks,
\* current_chunk, current_length], and sentences what is left to read.
RECURSIVE split_loop(_, _)
split_loop(st, sentences) ==
  IF sentences = <<>>
  THEN IF st.current_chunk # <<>>
       THEN Append(st.chunks, Chunk(st.current_chunk))
       ELSE st.chunks
  ELSE LET sentence == Head(sentences)
           sentence_length == sentence.chars \div 4
       IN  IF st.current_length + sentence_length + 1 > split_max_tokens
           THEN split_loop(
                  [chunks |-> IF st.current_chunk # <<>>
                              THEN Append(st.chunks, Chunk(st.current_chunk))
                              ELSE st.chunks,
                   current_chunk |-> <<sentence>>,
                   current_length |-> sentence_length],
                  Tail(sentences))
           ELSE split_loop(
                  [chunks |-> st.chunks,
                   current_chunk |-> Append(st.current_chunk, sentence),
                   current_length |-> st.current_length + sentence_length + 1],
                  Tail(sentences))

split_text(text) ==
  split_loop([chunks |-> <<>>, current_chunk |-> <<>>, current_length |-> 0],
             text.sentences)

\* format_triplets_for_next_level, lines 54-58.  Formatting a confidence of
\* None with :.2f raises TypeError.
format_triplets_for_next_level(triplets, current_level) ==
  IF \E n \in DOMAIN triplets : triplets[n].confidence = None
  THEN Raised
  ELSE Returned(Digest(current_level,
         [n \in DOMAIN triplets |->
            [k \in {"subject", "relation", "object", "confidence", "sentence"} |->
               triplets[n][k]]]))

\* _get_prompt, line 26: text.strip().startswith("Voici une liste de faits
\* extraits (Niveau") chooses the synthesis prompt, anything else the
\* first-order prompt.
starts_with_heading(text) ==
  IF text.kind = "digest" THEN TRUE ELSE text.sentences[1].digest

get_prompt(text) == IF starts_with_heading(text) THEN "synthesis" ELSE "first_order"

\* extract_triplets_with_context(text) when the service answers `reply`:
\* an exception of query is not caught (lines 119-123).
extract_triplets_with_context(text, reply) ==
  IF reply = ServiceError THEN Raised ELSE Returned(parse_response(reply))

\* Lines 127-129: t['level'] = current_level for every triplet of the chunk.
with_level(triplets, current_level) ==
  [n \in DOMAIN triplets |-> Put(triplets[n], "level", Num(current_level))]

\* Lines 93-95 and the arguments of the run.
Start(text, max_level) ==
  /\ pipe.pc = "idle"
  /\ pipe' = [pc |-> "level", text |-> text, max_level |-> max_level,
              current_level |-> 1, current_input |-> text,
              text_chunks |-> <<>>, i |-> 1,
              current_level_triplets |-> <<>>,
              all_triplets_across_levels |-> <<>>,
              queries |-> <<>>, level_results |-> <<>>, error |-> "none"]
  /\ UNCHANGED <<graph, stats, last, calls, seen, firstRole, file, resp, seg, retr, kag>>

\* Lines 97-115: the head of one pass of the loop over the levels.
BeginLevel ==
  /\ pipe.pc = "level"
  /\ pipe' =
       IF is_empty(pipe.current_input)
       THEN [pipe EXCEPT !.pc = "done"]
       ELSE [pipe EXCEPT
               !.pc = "chunk",
               !.text_chunks = IF pipe.current_level > 1
                               THEN <<pipe.current_input>>
                               ELSE split_text(pipe.current_input),
               !.i = 1,
               !.current_level_triplets = <<>>]
  /\ UNCHANGED <<graph, stats, last, calls, seen, firstRole, file, resp, seg, retr, kag>>

\* enumerate(text_chunks, 1): the chunk of the i-th pass.
chunk_at_from_end(text_chunks, i) == text_chunks[Len(text_chunks) + 1 - i]

chunk_at(text_chunks, i) == text_chunks[i]

\* Lines 118-131: one pass of the loop over the chunks; `reply` is what the
\* completion service does on this call.  queries records the calls made.
ExtractChunk(reply) ==
  /\ pipe.pc = "chunk"
  /\ pipe.i <= Len(pipe.text_chunks)
  /\ LET chunk == chunk_at(pipe.text_chunks, pipe.i)
         triplets_from_chunk == extract_triplets_with_context(chunk, reply)
         query == [level |-> pipe.current_level, i |-> pipe.i, text |-> chunk,
                   prompt |-> get_prompt(chunk), reply |-> reply,
                   ret |-> triplets_from_chunk]
     IN  pipe' =
           IF triplets_from_chunk.raised
           THEN [pipe EXCEPT !.pc = "crashed", !.error = "service",
                             !.queries = Append(@, query)]
           ELSE [pipe EXCEPT
                   !.i = @ + 1,
                   !.current_level_triplets =
                      @ \o with_level(triplets_from_chunk.value, pipe.current_level),
                   !.queries = Append(@, query)]
  /\ UNCHANGED <<graph, stats, last, calls, seen, firstRole, file, resp, seg, retr, kag>>

\* list.extend
extend_replacing(l, more) == more

extend(l, more) == l \o more

\* Line 137: the level gave nothing and it is not the last one.
never_stops_early(previous_level_triplets, current_level, max_level) == FALSE

stops_early(previous_level_triplets, current_level, max_level) ==
  previous_level_triplets = <<>> /\ current_level < max_level

\* Lines 133-147: the end of one pass of the loop over the levels; the loop
\* ends after the pass of level max_level.
EndLevel ==
  /\ pipe.pc = "chunk"
  /\ pipe.i > Len(pipe.text_chunks)
  /\ LET previous_level_triplets == pipe.current_level_triplets
         collected == [pipe EXCEPT
                         !.all_triplets_across_levels = extend(@, previous_level_triplets),
                         !.level_results = Append(@, previous_level_triplets)]
         next_input == format_triplets_for_next_level(previous_level_triplets,
                                                      pipe.current_level)
     IN  pipe' =
           IF stops_early(previous_level_triplets, pipe.current_level, pipe.max_level)
           THEN [collected EXCEPT !.pc = "done"]
           ELSE IF pipe.current_level < pipe.max_level
           THEN IF next_input.raised
                THEN [collected EXCEPT !.pc = "crashed", !.error = "format"]
                ELSE [collected EXCEPT !.pc = "level",
                                       !.current_input = next_input.value,
                                       !.current_level = @ + 1]
           ELSE [collected EXCEPT !.pc = "done", !.current_input = None]
  /\ UNCHANGED <<graph, stats, last, calls, seen, firstRole, file, resp, seg, retr, kag>>

NextPipeline ==
  \/ \E text \in Texts, max_level \in Levels : Start(text, max_level)
  \/ BeginLevel
  \/ \E reply \in Replies : ExtractChunk(reply)
  \/ EndLevel

SpecPipeline == Init /\ [][NextPipeline]_vars

(***************************************************************************)
(* Vocabulary of the pipeline claims.                                      *)
(***************************************************************************)
Started == pipe.pc # "idle"

\* The positions in the record of calls of the calls made for level L.
QueriesOfLevel(L) == {k \in DOMAIN pipe.queries : pipe.queries[k].level = L}

\* The number of chunks level L has: those of split_text for level 1, the
\* single digest for a later level.
ChunksOfLevel(L) == IF L = 1 THEN Len(split_text(pipe.text)) ELSE 1

\* Level L has ended, with the triplets level_results[L].
Ended(L) == L \in DOMAIN pipe.level_results

\* The triplets the calls returned, in call order, each with the level of
\* its call.
RECURSIVE TripletsReturnedBy(_)
TripletsReturnedBy(queries) ==
  IF queries = <<>> THEN <<>>
  ELSE LET q == queries[Len(queries)]
       IN  TripletsReturnedBy(SubSeq(queries, 1, Len(queries) - 1))
           \o [n \in DOMAIN q.ret.value |->
                 [k \in DOMAIN q.ret.value[n] \cup {"level"} |->
                    IF k = "level" THEN Num(q.level) ELSE q.ret.value[n][k]]]

\* The sentences of a sequence of chunks, in order.
RECURSIVE SentencesOf(_)
SentencesOf(chunks) ==
  IF chunks = <<>> THEN <<>> ELSE Head(chunks).sentences \o SentencesOf(Tail(chunks))

\* The completion is null, has no '[' ... ']' region, or has a region that
\* is not valid JSON.
SoftFailure(reply) ==
  reply.t = "none" \/ (reply.t = "str" /\ ~HoldsArray(reply.v))

\* C12: once a level L < max_level has ended with no triplet, the pipeline
\* is finished without an error and no call was made for a level above L;
\* when L is 1 the final result is empty.
C12_EmptyLevelStopsPipeline ==
  Started =>
    \A L \in 1..MaxLevel :
      (Ended(L) /\ L < pipe.max_level /\ pipe.level_results[L] = <<>>)
      => /\ pipe.pc = "done"
         /\ \A k \in DOMAIN pipe.queries : pipe.queries[k].level <= L
         /\ (L = 1 => pipe.all_triplets_across_levels = <<>>)

\* A run of more than one level whose level 1 had several chunks and gave
\* no triplet.
C12_Witness ==
  /\ pipe.pc = "done" /\ pipe.max_level > 1
  /\ Ended(1) /\ pipe.level_results[1] = <<>>
  /\ Cardinality(QueriesOfLevel(1)) >= 2

\* C13: the final output is the triplets the calls returned, level after
\* level in call order, each tagged with the level of the call that
\* returned it; its size is the sum of the sizes of the levels' results and
\* every tag is in 1..max_level.
C13_OutputIsLevelsConcatenated ==
  pipe.pc = "done" =>
    LET out == pipe.all_triplets_across_levels
    IN  /\ out = TripletsReturnedBy(pipe.queries)
        /\ \A a, b \in DOMAIN out : a < b => out[a].level.v <= out[b].level.v
        /\ \A a \in DOMAIN out : out[a].level.v \in 1..pipe.max_level

\* A finished run whose output holds triplets of level 1 and of level 2.
C13_Witness ==
  /\ pipe.pc = "done"
  /\ \E a, b \in DOMAIN pipe.all_triplets_across_levels :
       /\ pipe.all_triplets_across_levels[a].level = Num(1)
       /\ pipe.all_triplets_across_levels[b].level = Num(2)
  /\ Len(pipe.all_triplets_across_levels) >= 3

\* C14: the calls are made level after level; the k-th call of level 1 is
\* for the k-th chunk of the document, the chunks being the document's
\* sentences in order; a call of level N+1 comes after the calls for all
\* the chunks of level N.
C14_CallsInDocumentAndLevelOrder ==
  Started =>
    /\ \A a, b \in DOMAIN pipe.queries :
         a < b => pipe.queries[a].level <= pipe.queries[b].level
    /\ SentencesOf(split_text(pipe.text)) = pipe.text.sentences
    /\ \A k \in QueriesOfLevel(1) :
         /\ pipe.queries[k].i = k
         /\ pipe.queries[k].text = split_text(pipe.text)[k]
    /\ \A b \in DOMAIN pipe.queries :
         pipe.queries[b].level > 1 =>
           /\ Cardinality({a \in QueriesOfLevel(pipe.queries[b].level - 1) : a < b})
                = ChunksOfLevel(pipe.queries[b].level - 1)
           /\ \A a \in QueriesOfLevel(pipe.queries[b].level - 1) :
                ~pipe.queries[a].ret.raised

\* A run that made the calls for three different chunks of level 1 and then
\* a call of level 2.
C14_Witness ==
  /\ Started
  /\ Cardinality(QueriesOfLevel(1)) = 3
  /\ pipe.queries[1].text # pipe.queries[2].text
  /\ QueriesOfLevel(2) # {}

\* C15: every call of level 1 uses the first-order prompt and every call of
\* a level above 1 the synthesis prompt, whatever the text.
C15_PromptChosenByLevel ==
  Started =>
    \A k \in DOMAIN pipe.queries :
      pipe.queries[k].prompt =
        (IF pipe.queries[k].level = 1 THEN "first_order" ELSE "synthesis")

\* C16: in a run that is over, a call whose completion was a soft failure
\* returned no triplet and raised nothing, the calls for all the chunks of
\* its level were made, and the calls of every later level were made, up
\* to max_level or to the first level that ended empty.
C16_SoftFailureDoesNotStopPipeline ==
  pipe.pc \in {"done", "crashed"} =>
    \A k \in DOMAIN pipe.queries :
      SoftFailure(pipe.queries[k].reply) =>
        LET L == pipe.queries[k].level
        IN  /\ pipe.queries[k].ret = Returned(<<>>)
            /\ Cardinality(QueriesOfLevel(L)) = ChunksOfLevel(L)
            /\ \A M \in L..pipe.max_level :
                 (\A K \in L..(M - 1) : ~(Ended(K) /\ pipe.level_results[K] = <<>>))
                 => QueriesOfLevel(M) # {}

\* C17: a call on which the completion service failed returned an empty
\* result, and the pipeline did not stop on the failure.
C17_ServiceErrorBecomesEmptyResult ==
  Started =>
    \A k \in DOMAIN pipe.queries :
      pipe.queries[k].reply = ServiceError =>
        /\ pipe.queries[k].ret = Returned(<<>>)
        /\ pipe.pc # "crashed"

(***************************************************************************)
(* Part 5: the text segmenter, SemanticChunker.chunk_text and              *)
(* .semantic_chunk_text of                                                 *)
(* src/modules/semantic_processing/semantic_chunker.py.                    *)
(*                                                                         *)
(* The input is the sequence of sentences spaCy finds in the text, each    *)
(* with its position, its number of tokens and its embedding, a vector of  *)
(* two integers.  A chunk, the strings of its sentences joined by a space, *)
(* is kept as the sequence of these sentences.                             *)
(***************************************************************************)
MaxSents == 3

MaxTokenCount == 3

MaxBudget == 3

Embeddings == {<<1, 0>>, <<0, 1>>, <<-1, 0>>, <<1, 1>>, <<-1, 1>>, <<-2, -1>>}

TokenCounts == {1, 2, MaxTokenCount}

\* max_tokens: an integer, or float('inf').
Infinity == [t |-> "inf"]

Budgets == {Num(n) : n \in 0..MaxBudget} \cup {Infinity}

\* similarity_threshold, a fraction num/den: 0 and the default 0.5.
Thresholds == {[num |-> 0, den |-> 1], [num |-> 1, den |-> 2]}

\* total <= max_tokens
within(total, max_tokens) == max_tokens.t = "inf" \/ total <= max_tokens.v

\* Lines 56-57 and 66-67: the current chunk is appended when it is not the
\* empty string.
flush_dropping(chunks, current_chunk) == chunks

flush(chunks, current_chunk) ==
  IF current_chunk # <<>> THEN Append(chunks, current_chunk) ELSE chunks

\* chunk_text, lines 48-69: st is [chunks, current_chunk, current_len].
RECURSIVE chunk_loop(_, _, _)
chunk_loop(st, sents, max_tokens) ==
  IF sents = <<>> THEN flush(st.chunks, st.current_chunk)
  ELSE LET sent == Head(sents)
           token_count == sent.tokens
       IN  IF ~within(st.current_len + token_count, max_tokens)
           THEN chunk_loop([chunks |-> flush(st.chunks, st.current_chunk),
                            current_chunk |-> <<sent>>,
                            current_len |-> token_count],
                           Tail(sents), max_tokens)
           ELSE chunk_loop([chunks |-> st.chunks,
                            current_chunk |-> Append(st.current_chunk, sent),
                            current_len |-> st.current_len + token_count],
                           Tail(sents), max_tokens)

chunk_text(sentences, max_tokens) ==
  chunk_loop([chunks |-> <<>>, current_chunk |-> <<>>, current_len |-> 0],
             sentences, max_tokens)

dot(x, y) == x[1] * y[1] + x[2] * y[2]

\* The sum of a non-empty sequence of embeddings; their mean (line 106) is
\* this sum divided by their number and has the same direction.
\* The last embedding of the sequence alone.
sum_of_last(embeddings) == embeddings[Len(embeddings)]

RECURSIVE sum_of(_)
sum_of(embeddings) ==
  IF Len(embeddings) = 1 THEN embeddings[1]
  ELSE LET rest == sum_of(Tail(embeddings))
       IN  <<embeddings[1][1] + rest[1], embeddings[1][2] + rest[2]>>

\* Lines 104-110: cosine_similarity(x, mean of embeddings) >= threshold,
\* decided exactly.  The similarity is dot / (|x| |m|), and 0 when a norm
\* is 0.
similarity_above(x, embeddings, threshold) ==
  dot(x, sum_of(embeddings)) > 0

similarity_at_least(x, embeddings, threshold) ==
  LET m == sum_of(embeddings)
      d == dot(x, m)
      norms2 == dot(x, x) * dot(m, m)
      p == threshold.num
      q == threshold.den
  IN  IF norms2 = 0 THEN p <= 0
      ELSE IF p = 0 THEN d >= 0
      ELSE IF p > 0 THEN d >= 0 /\ q * q * d * d >= p * p * norms2
      ELSE d >= 0 \/ q * q * d * d <= p * p * norms2

\* semantic_chunk_text, lines 98-126: st is [chunks, current_chunk_sentences,
\* current_chunk_embedding, current_len].
RECURSIVE semantic_loop(_, _, _, _)
semantic_loop(st, sents, max_tokens, similarity_threshold) ==
  IF sents = <<>> THEN Append(st.chunks, st.current_chunk_sentences)
  ELSE LET sentence == Head(sents)
           token_count == sentence.tokens
           sentence_embedding == sentence.embedding
       IN  IF /\ within(st.current_len + token_count, max_tokens)
              /\ similarity_at_least(sentence_embedding, st.current_chunk_embedding,
                                     similarity_threshold)
           THEN semantic_loop(
                  [chunks |-> st.chunks,
                   current_chunk_sentences |-> Append(st.current_chunk_sentences, sentence),
                   current_chunk_embedding |->
                     Append(st.current_chunk_embedding, sentence_embedding),
                   current_len |-> st.current_len + token_count],
                  Tail(sents), max_tokens, similarity_threshold)
           ELSE semantic_loop(
                  [chunks |-> Append(st.chunks, st.current_chunk_sentences),
                   current_chunk_sentences |-> <<sentence>>,
                   current_chunk_embedding |-> <<sentence_embedding>>,
                   current_len |-> token_count],
                  Tail(sents), max_tokens, similarity_threshold)

\* Lines 83-96: no sentence gives no chunk; the first sentence opens the
\* first chunk.
semantic_chunk_text(sentences, max_tokens, similarity_threshold) ==
  IF sentences = <<>> THEN <<>>
  ELSE semantic_loop([chunks |-> <<>>,
                      current_chunk_sentences |-> <<sentences[1]>>,
                      current_chunk_embedding |-> <<sentences[1].embedding>>,
                      current_len |-> sentences[1].tokens],
                     Tail(sentences), max_tokens, similarity_threshold)

\* self.nlp(text) and self.embedder.encode: the next sentence of the text,
\* with its number of tokens and its embedding.
sentences_read == IF seg.pc = "reading" THEN seg.sentences ELSE <<>>

ReadSentence(tokens, embedding) ==
  /\ seg.pc \in {"idle", "reading"}
  /\ Len(sentences_read) < MaxSents
  /\ seg' = [pc |-> "reading",
             sentences |-> Append(sentences_read,
                                  [id |-> Len(sentences_read) + 1, tokens |-> tokens,
                                   embedding |-> embedding])]
  /\ UNCHANGED <<graph, stats, last, calls, seen, firstRole, file, pipe, resp, retr, kag>>

ChunkText(max_tokens) ==
  /\ seg.pc \in {"idle", "reading"}
  /\ seg' = [pc |-> "returned", op |-> "chunk_text", sentences |-> sentences_read,
             max_tokens |-> max_tokens,
             ret |-> chunk_text(sentences_read, max_tokens)]
  /\ UNCHANGED <<graph, stats, last, calls, seen, firstRole, file, pipe, resp, retr, kag>>

SemanticChunkText(max_tokens, similarity_threshold) ==
  /\ seg.pc \in {"idle", "reading"}
  /\ seg' = [pc |-> "returned", op |-> "semantic_chunk_text",
             sentences |-> sentences_read,
             max_tokens |-> max_tokens, similarity_threshold |-> similarity_threshold,
             ret |-> semantic_chunk_text(sentences_read, max_tokens, similarity_threshold)]
  /\ UNCHANGED <<graph, stats, last, calls, seen, firstRole, file, pipe, resp, retr, kag>>

NextChunker ==
  \/ \E tokens \in TokenCounts, embedding \in Embeddings : ReadSentence(tokens, embedding)
  \/ \E max_tokens \in Budgets : ChunkText(max_tokens)
  \/ \E max_tokens \in Budgets, similarity_threshold \in Thresholds :
       SemanticChunkText(max_tokens, similarity_threshold)

SpecChunker == Init /\ [][NextChunker]_vars

(***************************************************************************)
(* Vocabulary of the segmenter claims.                                     *)
(***************************************************************************)
RECURSIVE Concatenation(_)
Concatenation(chunks) ==
  IF chunks = <<>> THEN <<>> ELSE Head(chunks) \o Concatenation(Tail(chunks))

RECURSIVE TokensOf(_)
TokensOf(chunk) ==
  IF chunk = <<>> THEN 0 ELSE Head(chunk).tokens + TokensOf(Tail(chunk))

ReturnedBy(op) == seg.pc = "returned" /\ seg.op = op

\* The embeddings of the sentences before sentence n.
EmbeddingsBefore(sentences, n) == [j \in 1..(n - 1) |-> sentences[j].embedding]

\* C19: the chunks of chunk_text are non-empty and, put end to end, give
\* the sentences of the text in order; a chunk has more than max_tokens
\* tokens only if it is one sentence that alone has more than max_tokens
\* tokens; a text without sentences gives no chunk.
C19_FixedBudgetChunksPartitionSentences ==
  ReturnedBy("chunk_text") =>
    /\ Concatenation(seg.ret) = seg.sentences
    /\ \A c \in DOMAIN seg.ret :
         /\ seg.ret[c] # <<>>
         /\ ~within(TokensOf(seg.ret[c]), seg.max_tokens)
              => /\ Len(seg.ret[c]) = 1
                 /\ ~within(seg.ret[c][1].tokens, seg.max_tokens)
    /\ (seg.sentences = <<>> => seg.ret = <<>>)

\* Three sentences cut into a chunk of two sentences that fills the budget
\* and a chunk of one sentence that alone exceeds it.
C19_Witness ==
  /\ ReturnedBy("chunk_text")
  /\ Len(seg.sentences) = 3
  /\ Len(seg.ret) = 2
  /\ \E c \in DOMAIN seg.ret : Len(seg.ret[c]) = 2 /\ TokensOf(seg.ret[c]) = seg.max_tokens.v
  /\ \E c \in DOMAIN seg.ret : ~within(TokensOf(seg.ret[c]), seg.max_tokens)

\* C20 as stated: with an unbounded budget and threshold 0,
\* semantic_chunk_text gives one chunk that holds every sentence, whatever
\* the embeddings.
C20_AlwaysOneChunk ==
  ( /\ ReturnedBy("semantic_chunk_text")
    /\ seg.max_tokens = Infinity /\ seg.similarity_threshold.num = 0
    /\ seg.sentences # <<>> )
  => seg.ret = <<seg.sentences>>

\* C20 amended: with an unbounded budget and threshold 0 the chunks hold
\* every sentence in order, and there is one chunk exactly when no sentence
\* has a negative similarity with the mean embedding of the sentences
\* before it.
C20_OneChunkUnlessNegativeSimilarity ==
  ( /\ ReturnedBy("semantic_chunk_text")
    /\ seg.max_tokens = Infinity /\ seg.similarity_threshold.num = 0
    /\ seg.sentences # <<>> )
  => /\ Concatenation(seg.ret) = seg.sentences
     /\ (seg.ret = <<seg.sentences>>) <=>
          \A n \in 2..Len(seg.sentences) :
            dot(seg.sentences[n].embedding,
                sum_of(EmbeddingsBefore(seg.sentences, n))) >= 0

\* Three sentences, the second orthogonal to the first and the third at a
\* right angle or less to their mean, in one chunk.
C20_Witness ==
  /\ ReturnedBy("semantic_chunk_text")
  /\ seg.max_tokens = Infinity /\ seg.similarity_threshold.num = 0
  /\ Len(seg.sentences) = 3
  /\ dot(seg.sentences[2].embedding, seg.sentences[1].embedding) = 0
  /\ seg.ret = <<seg.sentences>>

\* The sum of the embeddings of sentences a..b of a text (a <= b): the
\* direction of their mean.
RECURSIVE MeanDirection(_, _, _)
MeanDirection(sentences, a, b) ==
  IF a = b THEN sentences[a].embedding
  ELSE LET m == MeanDirection(sentences, a, b - 1)
       IN  <<m[1] + sentences[b].embedding[1], m[2] + sentences[b].embedding[2]>>

\* The cosine of the angle between x and m is at least threshold (it counts
\* as 0 when m is the zero vector).
CosineAtLeast(x, m, threshold) ==
  LET d == x[1] * m[1] + x[2] * m[2]
      n2 == (x[1] * x[1] + x[2] * x[2]) * (m[1] * m[1] + m[2] * m[2])
  IN  IF n2 = 0 THEN threshold.num <= 0
      ELSE IF threshold.num = 0 THEN d >= 0
      ELSE d >= 0 /\ threshold.den * threshold.den * d * d
                       >= threshold.num * threshold.num * n2

\* The position in the text of the first sentence of the returned chunk that
\* holds sentence n.
ChunkStart(n) ==
  LET c == CHOOSE c \in DOMAIN seg.ret : \E j \in DOMAIN seg.ret[c] : seg.ret[c][j].id = n
  IN  seg.ret[c][1].id

\* C21: in the result of semantic_chunk_text, sentence n is in the chunk of
\* sentence n-1 exactly when the tokens of that chunk up to n-1 plus its own
\* stay within max_tokens and its cosine similarity to the mean embedding of
\* the sentences of that chunk up to n-1 is at least the threshold;
\* otherwise it is the first sentence of the next chunk.
C21_JoinsIffBudgetAndSimilarityToChunkMean ==
  ReturnedBy("semantic_chunk_text") =>
    /\ Concatenation(seg.ret) = seg.sentences
    /\ \A n \in 2..Len(seg.sentences) :
         LET a == ChunkStart(n - 1)
             joins == ChunkStart(n) = a
             tokens == TokensOf(SubSeq(seg.sentences, a, n))
         IN  /\ joins <=>
                  ( /\ within(tokens, seg.max_tokens)
                    /\ CosineAtLeast(seg.sentences[n].embedding,
                                     MeanDirection(seg.sentences, a, n - 1),
                                     seg.similarity_threshold) )
             /\ ~joins => ChunkStart(n) = n

\* Three sentences under an unbounded budget: the second passes the test
\* against the first, the third passes it against the second alone but
\* fails it against the mean of the first two; the chunks are {s1, s2} and
\* {s3}.
C21_Witness ==
  /\ ReturnedBy("semantic_chunk_text")
  /\ seg.max_tokens = Infinity
  /\ Len(seg.sentences) = 3
  /\ CosineAtLeast(seg.sentences[2].embedding, seg.sentences[1].embedding,
                   seg.similarity_threshold)
  /\ CosineAtLeast(seg.sentences[3].embedding, seg.sentences[2].embedding,
                   seg.similarity_threshold)
  /\ ~CosineAtLeast(seg.sentences[3].embedding, MeanDirection(seg.sentences, 1, 2),
                    seg.similarity_threshold)
  /\ seg.ret = <<SubSeq(seg.sentences, 1, 2), SubSeq(seg.sentences, 3, 3)>>

(***************************************************************************)
(* Part 6: retrieval of evidence, SemanticChunker.retrieve_relevant_chunks *)
(* of src/modules/semantic_processing/semantic_chunker.py and              *)
(* PromptEnhancer.enhance_with_rag, enhance_with_kag and                   *)
(* enhance_with_kag_rag of src/modules/semantic_processing/                *)
(* prompt_enhancer.py.                                                     *)
(*                                                                         *)
(* A corpus is a list of items, chunks of text or triplets, with the       *)
(* tensor of their cosine similarities to the question; a similarity is    *)
(* kept as an integer.  Positions in a list are counted from 1.            *)
(***************************************************************************)
MaxCorpus == 3

MaxScore == 2

MaxK == 3

ChunkTexts == {Str("x"), Str(" y")}

TripletItems == {<<"s", "v", "o">>, <<"we", "v", "z">>, <<"x", "is", "z">>}

Scores == 0..MaxScore

TopKs == 1..MaxK

Question == Str("q")

min(a, b) == IF a <= b THEN a ELSE b

\* The first k positions, whatever the scores.
first_k(scores, k) == {[j \in 1..k |-> j]}

\* torch.topk(scores, k).indices for 0 <= k <= len(scores): the positions of
\* k largest elements, by decreasing score.  Which of several equal elements
\* is taken, and in what order equal elements come, is not specified by
\* torch, so every such answer is possible.
topk(scores, k) ==
  {idx \in [1..k -> DOMAIN scores] :
     /\ \A a, b \in 1..k : a < b => idx[a] # idx[b] /\ scores[idx[a]] >= scores[idx[b]]
     /\ \A i \in DOMAIN scores :
          (\A a \in 1..k : idx[a] # i) => \A a \in 1..k : scores[i] <= scores[idx[a]]}

\* [items[i] for i in top_indices] and [scores[i].item() for i in top_indices]
take(l, top_indices) == [j \in DOMAIN top_indices |-> l[top_indices[j]]]

\* The corpus built so far.
corpus ==
  IF retr.pc = "encoding" THEN retr.corpus
  ELSE [kind |-> "none", items |-> <<>>, scores |-> <<>>]

\* self.embedder.encode and the cosine similarity with the question, for
\* the next item of the corpus.
Encode(kind, item, score) ==
  /\ retr.pc \in {"idle", "encoding"}
  /\ corpus.kind \in {"none", kind}
  /\ Len(corpus.items) < MaxCorpus
  /\ retr' = [pc |-> "encoding",
              corpus |-> [kind |-> kind, items |-> Append(corpus.items, item),
                          scores |-> Append(corpus.scores, score)]]
  /\ UNCHANGED <<graph, stats, last, calls, seen, firstRole, file, pipe, resp, seg, kag>>

\* retrieve_relevant_chunks, lines 184-197, on a non-empty list of chunks.
retrieve_relevant_chunks(chunks, similarities, top_k, top_indices) ==
  [j \in DOMAIN top_indices |->
     <<chunks[top_indices[j]], similarities[top_indices[j]]>>]

RetrieveRelevantChunks(top_k) ==
  /\ retr.pc = "encoding" /\ corpus.kind = "chunks"
  /\ \E top_indices \in topk(corpus.scores, min(top_k, Len(corpus.items))) :
       retr' = [pc |-> "returned", op |-> "retrieve_relevant_chunks",
                corpus |-> corpus, k |-> top_k, top_indices |-> top_indices,
                raised |-> FALSE,
                items |-> take(corpus.items, top_indices),
                scores |-> take(corpus.scores, top_indices),
                ret |-> retrieve_relevant_chunks(corpus.items, corpus.scores,
                                                 top_k, top_indices)]
  /\ UNCHANGED <<graph, stats, last, calls, seen, firstRole, file, pipe, resp, seg, kag>>

\* chunk.strip()
strip(chunk) == IF chunk = Str(" y") THEN Str("y") ELSE chunk

\* verb.endswith('s'), for the verbs of TripletItems.
ends_with_s(verb) == verb \in {"is"}

\* format_triplet_natural, lines 48-54: the verb gets an 's' unless it ends
\* with one or the subject is one of i, you, we, they (the subjects of
\* TripletItems are in lower case).
format_triplet_natural(triplet) ==
  LET subj == triplet[1]
      verb == triplet[2]
      obj == triplet[3]
  IN  [subj |-> subj, verb |-> verb,
       s |-> ~ends_with_s(verb) /\ subj \notin {"i", "you", "we", "they"},
       obj |-> obj]

\* The three prompts built around the evidence (lines 95-101, 157-163 and
\* 202-211).
RagPrompt(retrieved_chunks, prompt) ==
  [t |-> "rag_prompt",
   rag_context |-> [j \in DOMAIN retrieved_chunks |-> strip(retrieved_chunks[j])],
   question |-> prompt]

KagPrompt(selected_triplets, prompt) ==
  [t |-> "kag_prompt",
   triplet_text |-> [j \in DOMAIN selected_triplets |->
                       format_triplet_natural(selected_triplets[j])],
   question |-> prompt]

KagRagPrompt(selected_triplets, retrieved_chunks, prompt) ==
  [t |-> "kag_rag_prompt",
   triplet_text |-> [j \in DOMAIN selected_triplets |->
                       format_triplet_natural(selected_triplets[j])],
   rag_context |-> [j \in DOMAIN retrieved_chunks |-> strip(retrieved_chunks[j])],
   question |-> prompt]

\* What encoding an empty list of chunks and taking its similarities with
\* the question does (lines 80-85): with the sentence-transformers and torch
\* versions at hand it raises, or it gives an empty tensor of scores.
EmptyEncodings == {"raises", "empty"}

\* enhance_with_rag, lines 77-107, for the chunks text_chunks of the
\* document and their similarities chunk_scores.
enhance_with_rag(prompt, text_chunks, chunk_scores, top_indices, empty_encoding) ==
  IF text_chunks = <<>> /\ empty_encoding = "raises" THEN Raised
  ELSE LET retrieved_chunks == take(text_chunks, top_indices)
           retrieved_scores == take(chunk_scores, top_indices)
       IN  Returned([enhanced_prompt |-> RagPrompt(retrieved_chunks, prompt),
                     retrieved_chunks |-> retrieved_chunks,
                     chunk_scores |-> retrieved_scores])

\* enhance_with_kag, lines 128-169, for the triplets all_triplets extracted
\* from the document and their similarities cos_scores.
enhance_with_kag(prompt, all_triplets, cos_scores, top_indices) ==
  IF all_triplets = <<>>
  THEN Returned([enhanced_prompt |-> prompt, selected_triplets |-> <<>>,
                 triplet_scores |-> <<>>])
  ELSE LET selected_triplets == take(all_triplets, top_indices)
           triplet_scores == take(cos_scores, top_indices)
       IN  Returned([enhanced_prompt |-> KagPrompt(selected_triplets, prompt),
                     selected_triplets |-> selected_triplets,
                     triplet_scores |-> triplet_scores])

\* enhance_with_kag_rag, lines 191-217.
enhance_with_kag_rag(prompt, kag_result, rag_result) ==
  IF kag_result.raised \/ rag_result.raised THEN Raised
  ELSE Returned([enhanced_prompt |->
                   KagRagPrompt(kag_result.value.selected_triplets,
                                rag_result.value.retrieved_chunks, prompt),
                 kag_info |-> kag_result.value,
                 rag_info |-> rag_result.value])

\* The triplet corpora of the combined mode.
KagCorpora ==
  { [kind |-> "triplets", items |-> <<>>, scores |-> <<>>],
    [kind |-> "triplets", items |-> << <<"s", "v", "o">> >>, scores |-> <<1>>],
    [kind |-> "triplets", items |-> << <<"s", "v", "o">>, <<"we", "v", "z">> >>,
     scores |-> <<0, 1>>] }

EnhanceWithRag(top_k, empty_encoding) ==
  /\ retr.pc \in {"idle", "encoding"} /\ corpus.kind \in {"none", "chunks"}
  /\ \E top_indices \in topk(corpus.scores, min(top_k, Len(corpus.items))) :
       LET result == enhance_with_rag(Question, corpus.items, corpus.scores,
                                      top_indices, empty_encoding)
       IN  retr' = [pc |-> "returned", op |-> "enhance_with_rag",
                    corpus |-> corpus, k |-> top_k, top_indices |-> top_indices,
                    raised |-> result.raised,
                    items |-> IF result.raised THEN <<>> ELSE result.value.retrieved_chunks,
                    scores |-> IF result.raised THEN <<>> ELSE result.value.chunk_scores,
                    ret |-> result]
  /\ UNCHANGED <<graph, stats, last, calls, seen, firstRole, file, pipe, resp, seg, kag>>

EnhanceWithKag(max_triplets) ==
  /\ retr.pc \in {"idle", "encoding"} /\ corpus.kind \in {"none", "triplets"}
  /\ \E top_indices \in topk(corpus.scores, min(max_triplets, Len(corpus.scores))) :
       LET result == enhance_with_kag(Question, corpus.items, corpus.scores, top_indices)
       IN  retr' = [pc |-> "returned", op |-> "enhance_with_kag",
                    corpus |-> corpus, k |-> max_triplets, top_indices |-> top_indices,
                    raised |-> result.raised,
                    items |-> result.value.selected_triplets,
                    scores |-> result.value.triplet_scores,
                    ret |-> result]
  /\ UNCHANGED <<graph, stats, last, calls, seen, firstRole, file, pipe, resp, seg, kag>>

EnhanceWithKagRag(triplets, max_triplets, top_k_chunks, empty_encoding) ==
  /\ retr.pc \in {"idle", "encoding"} /\ corpus.kind \in {"none", "chunks"}
  /\ \E kag_indices \in topk(triplets.scores, min(max_triplets, Len(triplets.scores))),
        rag_indices \in topk(corpus.scores, min(top_k_chunks, Len(corpus.items))) :
       LET kag_result == enhance_with_kag(Question, triplets.items, triplets.scores,
                                          kag_indices)
           rag_result == enhance_with_rag(Question, corpus.items, corpus.scores,
                                          rag_indices, empty_encoding)
           result == enhance_with_kag_rag(Question, kag_result, rag_result)
       IN  retr' = [pc |-> "returned", op |-> "enhance_with_kag_rag",
                    corpus |-> corpus, triplets |-> triplets,
                    raised |-> result.raised, ret |-> result]
  /\ UNCHANGED <<graph, stats, last, calls, seen, firstRole, file, pipe, resp, seg, kag>>

NextRetrieval ==
  \/ \E item \in ChunkTexts, score \in Scores : Encode("chunks", item, score)
  \/ \E item \in TripletItems, score \in Scores : Encode("triplets", item, score)
  \/ \E top_k \in TopKs : RetrieveRelevantChunks(top_k)
  \/ \E top_k \in TopKs, empty_encoding \in EmptyEncodings :
       EnhanceWithRag(top_k, empty_encoding)
  \/ \E max_triplets \in TopKs : EnhanceWithKag(max_triplets)
  \/ \E triplets \in KagCorpora, max_triplets \in {1, MaxK}, top_k_chunks \in {1, MaxK},
        empty_encoding \in EmptyEncodings :
       EnhanceWithKagRag(triplets, max_triplets, top_k_chunks, empty_encoding)

SpecRetrieval == Init /\ [][NextRetrieval]_vars

(***************************************************************************)
(* Vocabulary of the retrieval claims.                                     *)
(***************************************************************************)
\* A retrieval over a non-empty corpus has returned.
Retrieved ==
  /\ retr.pc = "returned"
  /\ retr.op \in {"retrieve_relevant_chunks", "enhance_with_rag", "enhance_with_kag"}
  /\ retr.corpus.items # <<>>
  /\ ~retr.raised

\* C22: a retrieval over a non-empty corpus with k >= 1 returns min(k, size
\* of the corpus) items; they are items at different positions of the
\* corpus, each with the similarity of its position; no item left out has a
\* higher similarity than a returned one; the returned similarities do not
\* increase.
C22_TopKReturnsBestItemsInOrder ==
  Retrieved =>
    LET n == Len(retr.corpus.items)
        size == IF retr.k <= n THEN retr.k ELSE n
    IN  /\ Len(retr.items) = size /\ Len(retr.scores) = size
        /\ \E pos \in [1..size -> 1..n] :
             /\ \A a, b \in 1..size : a # b => pos[a] # pos[b]
             /\ \A a \in 1..size :
                  /\ retr.items[a] = retr.corpus.items[pos[a]]
                  /\ retr.scores[a] = retr.corpus.scores[pos[a]]
             /\ \A i \in 1..n :
                  (\A a \in 1..size : pos[a] # i)
                  => \A a \in 1..size : retr.corpus.scores[i] <= retr.scores[a]
        /\ \A a, b \in 1..size : a < b => retr.scores[a] >= retr.scores[b]
        /\ retr.op = "retrieve_relevant_chunks"
             => retr.ret = [a \in 1..size |-> <<retr.items[a], retr.scores[a]>>]

\* A corpus of three items with three different similarities, the best one
\* last, from which the two best are returned.
C22_Witness ==
  /\ Retrieved
  /\ Len(retr.corpus.items) = 3 /\ retr.k = 2
  /\ retr.corpus.scores[1] < retr.corpus.scores[2]
  /\ retr.corpus.scores[2] < retr.corpus.scores[3]
  /\ retr.scores = <<retr.corpus.scores[3], retr.corpus.scores[2]>>

\* C23: items of equal similarity come in the order of the corpus, and when
\* the cut falls among them the earlier ones are kept.
C23_TiesInCorpusOrder ==
  Retrieved =>
    /\ \A a, b \in DOMAIN retr.top_indices :
         (a < b /\ retr.scores[a] = retr.scores[b])
         => retr.top_indices[a] < retr.top_indices[b]
    /\ \A a \in DOMAIN retr.top_indices, i \in DOMAIN retr.corpus.items :
         ( /\ \A b \in DOMAIN retr.top_indices : retr.top_indices[b] # i
           /\ retr.corpus.scores[i] = retr.scores[a] )
         => retr.top_indices[a] < i

\* The corpus of the mode of the enhancement that returned is empty: no
\* chunk, no triplet, or neither.
EmptyCorpusOfMode ==
  /\ retr.pc = "returned"
  /\ \/ retr.op \in {"enhance_with_rag", "enhance_with_kag"} /\ retr.corpus.items = <<>>
     \/ /\ retr.op = "enhance_with_kag_rag"
        /\ retr.corpus.items = <<>> /\ retr.triplets.items = <<>>

\* C24: an enhancement over an empty corpus returns normally, its enhanced
\* prompt is the question unchanged and its evidence and score lists are
\* empty.
C24_EmptyCorpusGivesOriginalQuery ==
  EmptyCorpusOfMode =>
    /\ ~retr.raised
    /\ retr.ret.value.enhanced_prompt = Question
    /\ retr.op = "enhance_with_rag"
         => retr.ret.value.retrieved_chunks = <<>> /\ retr.ret.value.chunk_scores = <<>>
    /\ retr.op = "enhance_with_kag"
         => retr.ret.value.selected_triplets = <<>> /\ retr.ret.value.triplet_scores = <<>>
    /\ retr.op = "enhance_with_kag_rag"
         => /\ retr.ret.value.kag_info.selected_triplets = <<>>
            /\ retr.ret.value.rag_info.retrieved_chunks = <<>>

(***************************************************************************)
(* Part 7: KnowledgeGraph.add_triplet on arguments of any type.            *)
(*                                                                         *)
(* add_triplets_from_text passes on what the completion's JSON held under  *)
(* 'subject', 'relation' and 'object': a string, but also null or a list.  *)
(* The arguments are tagged Python values here.                            *)
(***************************************************************************)
\* A JSON array as a Python list: not hashable.
PyList == [t |-> "list", v |-> <<Str("r")>>]

AnyEntities == {Str("a"), Str("A"), None}

AnyRelations == {Str("r"), PyList}

\* hash(x) succeeds.
hashable(x) == x.t # "list"

\* lines 44-63.  "n not in self.graph.nodes" is False for None and raises
\* TypeError for an unhashable n; DiGraph.add_node(None) raises ValueError;
\* set.add raises TypeError for an unhashable element.  Each statement before
\* the one that raises has taken effect.
add_triplet_of_any_type(S, subject, relation, obj, properties) ==
  IF subject = None \/ ~hashable(subject)
  THEN [raised |-> TRUE, store |-> S]
  ELSE LET S1 == ensure_subject(S, subject.v)
       IN  IF obj = None \/ ~hashable(obj)
           THEN [raised |-> TRUE, store |-> S1]
           ELSE LET S2 == ensure_object(S1, obj.v)
                    props == IF properties = EmptyDict
                             THEN [k \in {"relation"} |-> relation]
                             ELSE Update([k \in {"relation"} |-> relation], properties)
                    G3 == add_edge(S2.graph, subject.v, obj.v, props)
                    stats3 == [S2.stats EXCEPT
                                 !.node_count = number_of_nodes(G3),
                                 !.edge_count = number_of_edges(G3)]
                IN  IF ~hashable(relation)
                    THEN [raised |-> TRUE, store |-> [graph |-> G3, stats |-> stats3]]
                    ELSE [raised |-> FALSE,
                          store |-> add_triplet(S, subject.v, relation.v, obj.v,
                                                properties)]

\* last keeps the arguments, the store the call found and whether it raised.
AddTripletOfAnyType(subject, relation, obj, properties) ==
  /\ calls < MaxCalls
  /\ LET before == [graph |-> graph, stats |-> stats]
         result == add_triplet_of_any_type(before, subject, relation, obj, properties)
     IN  /\ graph' = result.store.graph
         /\ stats' = result.store.stats
         /\ last' = [op |-> "add_triplet",
                     args |-> [subject |-> subject, relation |-> relation,
                               obj |-> obj, properties |-> properties],
                     before |-> before,
                     raised |-> result.raised]
  /\ calls' = calls + 1
  /\ UNCHANGED <<seen, firstRole>>
  /\ UNCHANGED nonStoreVars

NextAnyType ==
  \E subject \in AnyEntities, relation \in AnyRelations, obj \in AnyEntities,
     properties \in Props :
    AddTripletOfAnyType(subject, relation, obj, properties)

SpecAnyType == Init /\ [][NextAnyType]_vars

\* C25: a call of add_triplet either completes, with both entities in the
\* graph, the edge between them and the counts of nodes and edges brought up
\* to date, or raises and leaves the graph and every field of the stats as
\* the call found them.
C25_AddTripletAllOrNothing ==
  last.op = "add_triplet" =>
    IF last.raised
    THEN graph = last.before.graph /\ stats = last.before.stats
    ELSE /\ has_node(graph, last.args.subject.v)
         /\ has_node(graph, last.args.obj.v)
         /\ has_edge(graph, last.args.subject.v, last.args.obj.v)
         /\ stats.node_count = number_of_nodes(graph)
         /\ stats.edge_count = number_of_edges(graph)
         /\ last.args.relation.v \in stats.relation_types

\* C27: after add_triplet(s, r, o, properties), whatever keys properties
\* has, the edge from s to o carries the relation label r, and r is in the
\* set of relation types.
C27_StoredLabelIsTheArgument ==
  last.op = "add_triplet" =>
    /\ graph.adj[<<last.args.subject, last.args.obj>>]["relation"]
         = Str(last.args.relation)
    /\ last.args.relation \in stats.relation_types

(***************************************************************************)
(* The pipeline again: the digest between two levels and the end of the    *)
(* run.                                                                    *)
(***************************************************************************)
\* The digest of the triplets level L ended with: one fact per triplet, in
\* order, with its subject, relation, object, confidence and sentence.
DigestOfLevel(L) ==
  Digest(L, [n \in DOMAIN pipe.level_results[L] |->
               [k \in {"subject", "relation", "object", "confidence", "sentence"} |->
                  pipe.level_results[L][n][k]]])

\* C26: when a level L below max_level has ended with triplets, whatever
\* their confidence, the run goes on to level L+1: the digest is built
\* without an error, every call of level L+1 has the digest of level L's
\* triplets as its input, and level L+1 is one call.
C26_NextLevelIsOneCallOnTheDigest ==
  Started =>
    \A L \in 1..MaxLevel :
      (Ended(L) /\ L < pipe.max_level /\ pipe.level_results[L] # <<>>)
      => /\ ~(pipe.pc = "crashed" /\ pipe.error = "format")
         /\ pipe.current_level > L
         /\ \A k \in QueriesOfLevel(L + 1) : pipe.queries[k].text = DigestOfLevel(L)
         /\ Cardinality(QueriesOfLevel(L + 1)) <= 1
         /\ Ended(L + 1) => Cardinality(QueriesOfLevel(L + 1)) = 1

\* Every call of the completion service made so far has returned.
EveryCallReturned ==
  \A k \in DOMAIN pipe.queries : pipe.queries[k].reply # ServiceError

\* C29: in a run whose completion calls all return, at most max_level
\* levels are executed and at most (chunks of level 1) + (max_level - 1)
\* calls are made, the run does not end on an error, and when it is over it
\* has executed level max_level or its last level ended empty (or the text
\* was empty and no level was executed).
C29_RunEndsAtLastOrEmptyLevel ==
  (Started /\ EveryCallReturned) =>
    /\ Len(pipe.level_results) <= pipe.max_level
    /\ Len(pipe.queries) <= Len(split_text(pipe.text)) + (pipe.max_level - 1)
    /\ pipe.pc # "crashed"
    /\ pipe.pc = "done" =>
         \/ Len(pipe.level_results) = pipe.max_level
         \/ /\ pipe.level_results # <<>>
            /\ pipe.level_results[Len(pipe.level_results)] = <<>>
         \/ is_empty(pipe.text)

(***************************************************************************)
(* Part 8: KAGSystem of src/main.py: the two loaders, process_document     *)
(* and the choice of the document text in answer_question.                 *)
(*                                                                         *)
(* A Python string is the sequence of its pieces; "" is <<>>.              *)
(***************************************************************************)
MaxDocuments == 3

MaxPages == 2

\* What extract_text gives for one page of a PDF.
PageTexts == {<<>>, <<"p">>}

Pdfs == UNION {[1..n -> PageTexts] : n \in 0..MaxPages}

\* The contents of a plain-text file.
TxtContents == {<<>>, <<"t">>, <<"u">>}

\* The nodes one document adds to the graph: none when no triplet is
\* extracted from it.
NewNodes == {0, 2}

\* PDFLoader.load_pdf, lines 45-55: text starts empty and gets the text of
\* every page that has some, followed by a newline.
RECURSIVE load_pdf(_)
load_pdf(pages) ==
  IF pages = <<>> THEN <<>>
  ELSE (IF Head(pages) # <<>> THEN Head(pages) \o <<"\n">> ELSE <<>>)
       \o load_pdf(Tail(pages))

\* TextLoader.load_text, lines 43-46.
load_text(content) == content

\* KAGSystem.__init__, lines 45-48, and the loaders' __init__.
NewSystem ==
  [pc |-> "ready", pdf_loader_text |-> <<>>, text_loader_text |-> <<>>,
   node_count |-> 0, processed |-> 0, latest |-> <<>>,
   answer |-> [asked |-> FALSE]]

system == IF kag.pc = "idle" THEN NewSystem ELSE kag

\* process_document, lines 71-85, on a file of extension ext; new_nodes is
\* what add_triplets_from_text adds to the graph.  latest keeps the text of
\* the document processed last.
ProcessDocument(ext, file_content, new_nodes) ==
  /\ system.processed < MaxDocuments
  /\ LET text == IF ext = ".pdf" THEN load_pdf(file_content) ELSE load_text(file_content)
     IN  kag' = [system EXCEPT
                   !.pdf_loader_text = IF ext = ".pdf" THEN text ELSE @,
                   !.text_loader_text = IF ext = ".pdf" THEN @ ELSE text,
                   !.node_count = @ + new_nodes,
                   !.processed = @ + 1,
                   !.latest = text]
  /\ UNCHANGED <<graph, stats, last, calls, seen, firstRole, file, pipe, resp, seg, retr>>

\* answer_question, lines 127-133.
document_text(pdf_loader_text, text_loader_text) ==
  IF pdf_loader_text # <<>> THEN pdf_loader_text
  ELSE IF text_loader_text # <<>> THEN text_loader_text
  ELSE <<>>

\* clear_knowledge_graph, lines 199-208: knowledge_graph.clear() empties the
\* graph; the loaders keep their text.
ClearKnowledgeGraph ==
  /\ kag' = [system EXCEPT !.node_count = 0]
  /\ UNCHANGED <<graph, stats, last, calls, seen, firstRole, file, pipe, resp, seg, retr>>

\* answer_question, lines 118-133: without a node in the graph (no document
\* processed yet, none that gave a triplet, or the graph cleared) the
\* question is answered at once and no document text is looked up.
AnswerQuestion ==
  /\ kag' = [system EXCEPT
               !.answer =
                  IF system.node_count = 0
                  THEN [asked |-> TRUE, retrieval |-> FALSE]
                  ELSE [asked |-> TRUE, retrieval |-> TRUE,
                        document_text |-> document_text(system.pdf_loader_text,
                                                        system.text_loader_text),
                        latest |-> system.latest]]
  /\ UNCHANGED <<graph, stats, last, calls, seen, firstRole, file, pipe, resp, seg, retr>>

NextSystem ==
  \/ \E pages \in Pdfs, new_nodes \in NewNodes : ProcessDocument(".pdf", pages, new_nodes)
  \/ \E content \in TxtContents, new_nodes \in NewNodes :
       ProcessDocument(".txt", content, new_nodes)
  \/ ClearKnowledgeGraph
  \/ AnswerQuestion

SpecSystem == Init /\ [][NextSystem]_vars

\* C28: the document text answer_question retrieves from is the text of the
\* document processed last.
C28_AnswerUsesLatestDocument ==
  (kag.pc = "ready" /\ kag.answer.asked /\ kag.answer.retrieval) =>
    kag.answer.document_text = kag.answer.latest

\* C30: for every completion, extract_triplets returns normally, and what
\* it returns is, in order, the (subject, relation, object) of the triplets
\* extract_triplets_with_context returns for the same completion.
C30_ParsersAgree ==
  resp.pc = "returned" =>
    /\ ~resp.tuples.raised
    /\ resp.tuples.value =
         [i \in DOMAIN resp.ret |->
            <<resp.ret[i].subject, resp.ret[i].relation, resp.ret[i].object>>]
====
